---- MODULE Spec2Model ----
(***************************************************************************)
(* gpytorch.lazy.CachedCGLazyTensor: a wrapper that solves a set of        *)
(* right-hand sides against a wrapped operator once, at construction, and  *)
(* answers later solve requests from those cached solves when every        *)
(* requested column points in the direction of a cached column.            *)
(*                                                                         *)
(* Tensors are sequences of columns.  A column is a record                 *)
(*     [num |-> <<integers>>, den |-> d, n2 |-> s]                         *)
(* standing for the real vector  num / (d * sqrt(s)).  Arithmetic is the   *)
(* exact arithmetic of the reals, except that 0/0 is kept as the value it  *)
(* has in floating point: a column with s = 0 is a column of NaN.  A norm  *)
(* is carried as its square (a natural number), so "norm = 0" is           *)
(* "squared norm = 0" and dividing a column by a norm multiplies its s.    *)
(***************************************************************************)
EXTENDS Integers, Sequences, FiniteSets, TLC

\* ------------------------------------------------------------ bounds
MaxEager == 2       \* columns of eager_rhs
MaxQuery == 2       \* columns of one query batch
MaxProbes == 1      \* settings.num_trace_samples goes up to this
MaxLookups == 2     \* _solve calls made on one wrapper

\* ------------------------------------------------- program constants
ThresholdNum == 9999      \* .gt(0.9999)
ThresholdDen == 10000
ClampMin == 1             \* .clamp(1, math.inf)

\* ------------------------------------------------------ column algebra
RECURSIVE Gcd(_, _)
Gcd(a, b) == IF b = 0 THEN a ELSE Gcd(b, a % b)

Abs(x) == IF x < 0 THEN -x ELSE x

RECURSIVE SumTo(_, _)
\* f[1] + ... + f[n]
SumTo(f, n) == IF n = 0 THEN 0 ELSE SumTo(f, n - 1) + f[n]

Dot(u, v) == SumTo([i \in 1..Len(u) |-> u[i] * v[i]], Len(u))

RECURSIVE GcdTo(_, _)
\* gcd(|f[1]|, ..., |f[n]|)
GcdTo(f, n) == IF n = 0 THEN 0 ELSE Gcd(GcdTo(f, n - 1), Abs(f[n]))

\* A tensor entry built from an integer vector.
Plain(t) == [num |-> t, den |-> 1, n2 |-> 1]

\* 0/0: every entry of the column is NaN.
IsNaN(c) == c.n2 = 0 \/ c.den = 0

\* The column in lowest terms (the same real vector).
Reduce(c) ==
    IF IsNaN(c) THEN c
    ELSE LET g == Gcd(c.den, GcdTo(c.num, Len(c.num)))
         IN  [num |-> [i \in 1..Len(c.num) |-> c.num[i] \div g],
              den |-> c.den \div g, n2 |-> c.n2]

\* a + b for columns under the same square root.
AddCol(a, b) ==
    IF IsNaN(a) THEN a
    ELSE IF IsNaN(b) THEN b
    ELSE Reduce([num |-> [i \in 1..Len(a.num) |->
                              a.num[i] * b.den + b.num[i] * a.den],
                 den |-> a.den * b.den, n2 |-> a.n2])

\* c * (p / q), q >= 0; NaN * anything and anything * (p / 0) are NaN.
ScaleCol(c, p, q) ==
    IF IsNaN(c) THEN c
    ELSE IF q = 0 THEN [num |-> c.num, den |-> 0, n2 |-> c.n2]
    ELSE Reduce([num |-> [i \in 1..Len(c.num) |-> c.num[i] * p],
                 den |-> c.den * q, n2 |-> c.n2])

RECURSIVE FracGT(_, _, _, _)
\* p/q > r/s for naturals p, r and positive q, s, by continued fractions
\* (no product of the four is formed).
FracGT(p, q, r, s) ==
    LET a == p \div q
        b == r \div s
        p1 == p % q
        r1 == r % s
    IN  IF a # b THEN a > b
        ELSE IF p1 = 0 THEN FALSE
        ELSE IF r1 = 0 THEN TRUE
        ELSE FracGT(s, r1, q, p1)

\* torch.norm(x, 2, dim=-2): the squared L2 norm of a column of integers.
Norm2(c) == Dot(c.num, c.num)

\* x.div(norm), norm given by its square.
DivNorm(c, nsq) == [num |-> c.num, den |-> c.den, n2 |-> c.n2 * nsq]

\* x * 0 + 1, entrywise: 1 for a number, NaN for NaN.
MulZeroAddOne(c) ==
    IF IsNaN(c) THEN c ELSE Plain([i \in 1..Len(c.num) |-> 1])

\* torch.tensor([])
EmptyTensor == << >>

\* An optional argument: None, or a value.
None == [given |-> FALSE, val |-> << >>]
Some(v) == [given |-> TRUE, val |-> v]
NoneInt == [given |-> FALSE, val |-> 0]
SomeInt(n) == [given |-> TRUE, val |-> n]

\* --------------------------------------------- the wrapped operator
\* The inverse of the wrapped operator's matrix [[2, -1], [-1, 1]]
\* (symmetric positive definite, determinant 1).
Ainv == << <<1, 1>>, <<1, 2>> >>

\* base_lazy_tensor.matrix_shape[-1]
MatrixDim == Len(Ainv)

ZeroCol == Plain([i \in 1..MatrixDim |-> 0])

\* The solve of one column against the operator.
SolveCol(c) ==
    [num |-> [i \in 1..MatrixDim |-> Dot(Ainv[i], c.num)],
     den |-> c.den, n2 |-> c.n2]

\* The tridiagonal matrix the solver builds for one column.
Tmat(c) == [tridiag_of |-> c]

\* base_lazy_tensor._solve(rhs, preconditioner, num_tridiag): the solve
\* of every column, and the tridiagonal matrices of the first num_tridiag.
base_solve(rhs, num_tridiag) ==
    [solves |-> [j \in 1..Len(rhs) |-> SolveCol(rhs[j])],
     tmats  |-> [j \in 1..num_tridiag |-> Tmat(rhs[j])]]

\* ------------------------------------------------------ construction
\* Mutant of Rademacher: the draw of 0/1 entries is used as it is.
Rademacher_Bernoulli(bern) ==
    [j \in 1..Len(bern) |-> Plain([i \in 1..MatrixDim |-> bern[j][i]])]

\* probe_vectors.bernoulli_().mul_(2).add_(-1) on a draw of 0/1 entries.
Rademacher(bern) ==
    [j \in 1..Len(bern) |->
        Plain([i \in 1..MatrixDim |-> bern[j][i] * 2 + (-1)])]

\* Mutant of GenerateProbes: probe vectors are drawn whether or not the
\* log determinant will be computed.
GenerateProbes_Always(probe_vectors, probe_vector_norms, will_compute_logdet, bern) ==
    IF ~probe_vectors.given \/ ~probe_vector_norms.given
    THEN LET raw == Rademacher(bern)
             norms == [j \in 1..Len(raw) |-> Norm2(raw[j])]
         IN  [probe_vectors |->
                  [j \in 1..Len(raw) |-> DivNorm(raw[j], norms[j])],
              probe_vector_norms |-> norms]
    ELSE [probe_vectors |-> probe_vectors.val,
          probe_vector_norms |-> probe_vector_norms.val]

\* The probe vectors and their norms as the constructor leaves them.
\* bern is the Bernoulli draw, one column per trace sample.
GenerateProbes(probe_vectors, probe_vector_norms, will_compute_logdet, bern) ==
    IF ~probe_vectors.given \/ ~probe_vector_norms.given
    THEN IF will_compute_logdet
         THEN LET raw == Rademacher(bern)
                  norms == [j \in 1..Len(raw) |-> Norm2(raw[j])]
              IN  [probe_vectors |->
                       [j \in 1..Len(raw) |-> DivNorm(raw[j], norms[j])],
                   probe_vector_norms |-> norms]
         ELSE [probe_vectors |-> EmptyTensor,
               probe_vector_norms |-> EmptyTensor]
    ELSE [probe_vectors |-> probe_vectors.val,
          probe_vector_norms |-> probe_vector_norms.val]

\* Mutant of NormalizeEager: eager_rhs is stored without being normalized.
NormalizeEager_Skip(eager_rhs, normed_eager_rhs) ==
    IF ~normed_eager_rhs.given THEN eager_rhs ELSE normed_eager_rhs.val

\* normed_eager_rhs as the constructor leaves it.
NormalizeEager(eager_rhs, normed_eager_rhs) ==
    IF ~normed_eager_rhs.given
    THEN LET norm == [j \in 1..Len(eager_rhs) |-> Norm2(eager_rhs[j])]
         IN  [j \in 1..Len(eager_rhs) |-> DivNorm(eager_rhs[j], norm[j])]
    ELSE normed_eager_rhs.val

\* all_solves[..., :k]
FirstCols(t, k) == SubSeq(t, 1, k)

\* Mutant of ColsFrom: the split keeps the leading columns.
ColsFrom_Leading(t, k) == SubSeq(t, 1, Len(t) - k)

\* all_solves[..., k:]
ColsFrom(t, k) == SubSeq(t, k + 1, Len(t))

\* Mutant of PrecomputeSolves: the probe vectors and eager_rhs are solved
\* in two calls instead of one batch.
PrecomputeSolves_TwoCalls(eager_rhs, probe_vectors, solves, probe_solves, probe_tmats, will_compute_logdet) ==
    IF ~solves.given \/ ~probe_solves.given \/ ~probe_tmats.given
    THEN IF will_compute_logdet
         THEN LET num_tridiag == Len(probe_vectors)
                  p == base_solve(probe_vectors, num_tridiag)
                  e == base_solve(eager_rhs, 0)
              IN  [solves |-> e.solves,
                   probe_solves |-> [j \in 1..Len(p.solves) |-> MulZeroAddOne(p.solves[j])],
                   probe_tmats |-> p.tmats,
                   calls |-> << [rhs |-> probe_vectors, num_tridiag |-> SomeInt(num_tridiag)],
                                [rhs |-> eager_rhs, num_tridiag |-> SomeInt(0)] >>]
         ELSE LET r == base_solve(eager_rhs, 0)
              IN  [solves |-> r.solves,
                   probe_solves |-> EmptyTensor,
                   probe_tmats |-> EmptyTensor,
                   calls |-> << [rhs |-> eager_rhs, num_tridiag |-> SomeInt(0)] >>]
    ELSE [solves |-> solves.val, probe_solves |-> probe_solves.val,
          probe_tmats |-> probe_tmats.val, calls |-> << >>]

\* Mutant of PrecomputeSolves: only the artifacts that are missing are
\* taken from the solve; those supplied are kept.
PrecomputeSolves_KeepSupplied(eager_rhs, probe_vectors, solves, probe_solves, probe_tmats, will_compute_logdet) ==
    IF ~solves.given \/ ~probe_solves.given \/ ~probe_tmats.given
    THEN LET rhs == IF will_compute_logdet THEN probe_vectors \o eager_rhs ELSE eager_rhs
             num_tridiag == IF will_compute_logdet THEN Len(probe_vectors) ELSE 0
             r == base_solve(rhs, num_tridiag)
             p == FirstCols(r.solves, num_tridiag)
         IN  [solves |-> IF solves.given THEN solves.val ELSE ColsFrom(r.solves, num_tridiag),
              probe_solves |-> IF probe_solves.given THEN probe_solves.val
                               ELSE [j \in 1..Len(p) |-> MulZeroAddOne(p[j])],
              probe_tmats |-> IF probe_tmats.given THEN probe_tmats.val ELSE r.tmats,
              calls |-> << [rhs |-> rhs, num_tridiag |-> SomeInt(num_tridiag)] >>]
    ELSE [solves |-> solves.val, probe_solves |-> probe_solves.val,
          probe_tmats |-> probe_tmats.val, calls |-> << >>]

\* solves, probe_solves and probe_tmats as the constructor leaves them,
\* and the calls it made of the wrapped operator's solve.
PrecomputeSolves(eager_rhs, probe_vectors, solves, probe_solves, probe_tmats, will_compute_logdet) ==
    IF ~solves.given \/ ~probe_solves.given \/ ~probe_tmats.given
    THEN IF will_compute_logdet
         THEN LET rhs == probe_vectors \o eager_rhs
                  num_tridiag == Len(probe_vectors)
                  r == base_solve(rhs, num_tridiag)
                  all_solves == r.solves
              IN  [solves |-> ColsFrom(all_solves, Len(probe_vectors)),
                   probe_solves |->
                       LET p == FirstCols(all_solves, Len(probe_vectors))
                       IN  [j \in 1..Len(p) |-> MulZeroAddOne(p[j])],
                   probe_tmats |-> r.tmats,
                   calls |-> << [rhs |-> rhs, num_tridiag |-> SomeInt(num_tridiag)] >>]
         ELSE LET r == base_solve(eager_rhs, 0)
              IN  [solves |-> r.solves,
                   probe_solves |-> EmptyTensor,
                   probe_tmats |-> EmptyTensor,
                   calls |-> << [rhs |-> eager_rhs, num_tridiag |-> SomeInt(0)] >>]
    ELSE [solves |-> solves.val, probe_solves |-> probe_solves.val,
          probe_tmats |-> probe_tmats.val, calls |-> << >>]

\* CachedCGLazyTensor.__init__: the fields of the new wrapper (self) and the
\* solve calls made on the wrapped operator (calls).
__init__(eager_rhs, normed_eager_rhs, probe_vectors, probe_vector_norms, solves, probe_solves, probe_tmats, will_compute_logdet, bern) ==
    LET pv == GenerateProbes(probe_vectors, probe_vector_norms,
                             will_compute_logdet, bern)
        ne == NormalizeEager(eager_rhs, normed_eager_rhs)
        sv == PrecomputeSolves(eager_rhs, pv.probe_vectors, solves,
                               probe_solves, probe_tmats, will_compute_logdet)
    IN  [self |-> [eager_rhs |-> eager_rhs,
                   normed_eager_rhs |-> ne,
                   probe_vectors |-> pv.probe_vectors,
                   probe_vector_norms |-> pv.probe_vector_norms,
                   solves |-> sv.solves,
                   probe_solves |-> sv.probe_solves,
                   probe_tmats |-> sv.probe_tmats],
         calls |-> sv.calls]

\* ------------------------------------------------------------ lookup
\* One entry of normed_eager_rhs.t() @ normed_rhs: the real number
\* num / sqrt(d2), NaN when either column is NaN.
SimEntry(a, b) ==
    [num |-> Dot(a.num, b.num), d2 |-> (a.den * a.den * a.n2) * (b.den * b.den * b.n2)]

\* Mutant of GtThreshold: the absolute value of the similarity is compared.
GtThreshold_Abs(x) ==
    IF x.d2 = 0 THEN 0
    ELSE IF x.num # 0 /\ FracGT(x.num * x.num, x.d2, ThresholdNum * ThresholdNum, ThresholdDen * ThresholdDen)
    THEN 1 ELSE 0

\* x.gt(0.9999).type_as(...): 1 when x > 0.9999, else 0; NaN compares false.
GtThreshold(x) ==
    IF x.d2 = 0 THEN 0
    ELSE IF x.num > 0 /\ FracGT(x.num * x.num, x.d2, ThresholdNum * ThresholdNum, ThresholdDen * ThresholdDen)
    THEN 1 ELSE 0

\* similarity_matrix after .gt(0.9999): [i][j] for cached column i and
\* query column j.
MatchIndicator(normed_eager_rhs, normed_rhs) ==
    [i \in 1..Len(normed_eager_rhs) |->
        [j \in 1..Len(normed_rhs) |->
            GtThreshold(SimEntry(normed_eager_rhs[i], normed_rhs[j]))]]

\* similarity_matrix.sum(-2, keepdim=True)
NumPrecomputedPerVec(ind, ncols) ==
    [j \in 1..ncols |-> SumTo([i \in 1..Len(ind) |-> ind[i][j]], Len(ind))]

\* Mutant of Clamp: the count is not clamped.
Clamp_None(x) == x

\* x.clamp(1, math.inf)
Clamp(x) == IF x < ClampMin THEN ClampMin ELSE x

\* Mutant of Weights: the indicator is not divided by the count.
Weights_NoDivide(ind, count) ==
    [i \in 1..Len(ind) |->
        [j \in 1..Len(count) |-> [num |-> ind[i][j], den |-> 1]]]

\* similarity_matrix.div(num_precomputed_per_vec.clamp(1, math.inf)):
\* entry [i][j] is the fraction num / den.
Weights(ind, count) ==
    [i \in 1..Len(ind) |->
        [j \in 1..Len(count) |-> [num |-> ind[i][j], den |-> Clamp(count[j])]]]

RECURSIVE WeightedSum(_, _, _, _)
\* solves[1] * w[1][j] + ... + solves[n] * w[n][j]
WeightedSum(solves, w, j, n) ==
    IF n = 0 THEN ZeroCol
    ELSE AddCol(WeightedSum(solves, w, j, n - 1), ScaleCol(solves[n], w[n][j].num, w[n][j].den))

\* self.solves @ similarity_matrix
MatMul(solves, w, ncols) ==
    [j \in 1..ncols |-> WeightedSum(solves, w, j, Len(solves))]

\* Mutant of AllCovered: zero columns are not accepted.
AllCovered_NoZero(count, norm) ==
    \A j \in 1..Len(count) : count[j] >= 1

\* torch.all(num_precomputed_per_vec.ge(1) | norm.eq(0.))
AllCovered(count, norm) ==
    \A j \in 1..Len(count) : count[j] >= 1 \/ norm[j] = 0

\* LazyTensor._solve of the superclass: a solve against the wrapped
\* operator by way of its _matmul.  num_tridiag defaults to 0.
super_solve(rhs, num_tridiag) ==
    [ret |-> base_solve(rhs, num_tridiag.val),
     calls |-> << [rhs |-> rhs, num_tridiag |-> num_tridiag] >>]

\* Mutant of FieldsAfterLookup: the batch and its solve are added to the
\* cache.
FieldsAfterLookup_Caching(self, rhs, ret) ==
    [self EXCEPT !.eager_rhs = @ \o rhs,
                 !.normed_eager_rhs = @ \o [j \in 1..Len(rhs) |-> DivNorm(rhs[j], Norm2(rhs[j]))],
                 !.solves = @ \o ret.solves]

\* What a lookup leaves in the wrapper's fields: _solve assigns none.
FieldsAfterLookup(self, rhs, ret) == self

\* Mutant of TridiagRequested: the request is tested for truth, so that 0
\* counts as absent.
TridiagRequested_Truthy(num_tridiag) == num_tridiag.given /\ num_tridiag.val # 0

\* num_tridiag is not None
TridiagRequested(num_tridiag) == num_tridiag.given

\* return super()._solve(rhs, preconditioner, num_tridiag=num_tridiag)
BypassBranch(self, rhs, num_tridiag) ==
    LET s == super_solve(rhs, num_tridiag)
    IN  [ret |-> s.ret, path |-> "bypass", warnings |-> 0, calls |-> s.calls,
         self |-> FieldsAfterLookup(self, rhs, s.ret), rhs |-> rhs]

\* Mutant of FallbackBranch: only the columns without a match are solved
\* afresh; the others are taken from the cache.
FallbackBranch_Partial(self, rhs, debug) ==
    LET s == super_solve(rhs, NoneInt)
        norm == [j \in 1..Len(rhs) |-> Norm2(rhs[j])]
        normed_rhs == [j \in 1..Len(rhs) |-> DivNorm(rhs[j], norm[j])]
        ind == MatchIndicator(self.normed_eager_rhs, normed_rhs)
        count == NumPrecomputedPerVec(ind, Len(rhs))
        cached == MatMul(self.solves, Weights(ind, count), Len(rhs))
        ret == [solves |-> [j \in 1..Len(rhs) |-> IF count[j] >= 1 THEN cached[j] ELSE s.ret.solves[j]],
                tmats |-> s.ret.tmats]
    IN  [ret |-> ret, path |-> "fallback",
         warnings |-> IF debug THEN 1 ELSE 0, calls |-> s.calls,
         self |-> FieldsAfterLookup(self, rhs, ret), rhs |-> rhs]

\* Mutant of FallbackBranch: the warning is given whatever settings.debug
\* says.
FallbackBranch_WarnAlways(self, rhs, debug) ==
    LET s == super_solve(rhs, NoneInt)
    IN  [ret |-> s.ret, path |-> "fallback",
         warnings |-> 1, calls |-> s.calls,
         self |-> FieldsAfterLookup(self, rhs, s.ret), rhs |-> rhs]

\* The branch of a failed coverage check: the warning under
\* settings.debug, then return super()._solve(rhs, preconditioner).
FallbackBranch(self, rhs, debug) ==
    LET s == super_solve(rhs, NoneInt)
    IN  [ret |-> s.ret, path |-> "fallback",
         warnings |-> IF debug THEN 1 ELSE 0, calls |-> s.calls,
         self |-> FieldsAfterLookup(self, rhs, s.ret), rhs |-> rhs]

\* return self.solves @ similarity_matrix
HitBranch(self, rhs, similarity_matrix) ==
    LET ret == [solves |-> MatMul(self.solves, similarity_matrix, Len(rhs)),
                tmats |-> EmptyTensor]
    IN  [ret |-> ret, path |-> "hit", warnings |-> 0, calls |-> << >>,
         self |-> FieldsAfterLookup(self, rhs, ret), rhs |-> rhs]

\* CachedCGLazyTensor._solve(rhs, preconditioner, num_tridiag) with
\* settings.debug as given.  ret: the value returned; path: the branch
\* taken; warnings: the warnings emitted; calls: the solves made on the
\* wrapped operator; self, rhs: the wrapper's fields and the caller's
\* tensor after the call; weights: similarity_matrix as last assigned.
_solve(self, rhs, num_tridiag, debug) ==
    IF TridiagRequested(num_tridiag)
    THEN [weights |-> EmptyTensor] @@ BypassBranch(self, rhs, num_tridiag)
    ELSE LET norm == [j \in 1..Len(rhs) |-> Norm2(rhs[j])]
             normed_rhs == [j \in 1..Len(rhs) |-> DivNorm(rhs[j], norm[j])]
             ind == MatchIndicator(self.normed_eager_rhs, normed_rhs)
             num_precomputed_per_vec == NumPrecomputedPerVec(ind, Len(rhs))
             similarity_matrix == Weights(ind, num_precomputed_per_vec)
         IN  [weights |-> similarity_matrix] @@
             (IF ~AllCovered(num_precomputed_per_vec, norm)
              THEN FallbackBranch(self, rhs, debug)
              ELSE HitBranch(self, rhs, similarity_matrix))

\* ----------------------------------------------------- passthrough
\* What base_lazy_tensor.op(*args) returns.
base_call(op, args) == [of |-> op, args |-> args]

NoValue == [of |-> "none", args |-> << >>]

\* Mutant of Forward: the arguments reach the wrapped operator in
\* reverse order.
Forward_Reversed(op, args) ==
    [calls |-> << [op |-> op, args |-> [i \in 1..Len(args) |-> args[Len(args) + 1 - i]]] >>,
     reads |-> { "base_lazy_tensor" },
     ret |-> [kind |-> "base", val |-> base_call(op, [i \in 1..Len(args) |-> args[Len(args) + 1 - i]]), flag |-> FALSE]]

\* return self.base_lazy_tensor.op(*args).  calls: the calls made on the
\* wrapped operator; reads: the attributes of self read; ret: the value
\* returned.
Forward(op, args) ==
    [calls |-> << [op |-> op, args |-> args] >>,
     reads |-> { "base_lazy_tensor" },
     ret |-> [kind |-> "base", val |-> base_call(op, args), flag |-> FALSE]]

\* The requires_grad property: return self.base_lazy_tensor.requires_grad
requires_grad(base_flag) ==
    [calls |-> << [op |-> "requires_grad", args |-> << >>] >>,
     reads |-> { "base_lazy_tensor" },
     ret |-> [kind |-> "flag", val |-> NoValue, flag |-> base_flag]]

\* The requires_grad setter: self.base_lazy_tensor.requires_grad = val
requires_grad_setter(val) ==
    [calls |-> << [op |-> "requires_grad.setter", args |-> << val >>] >>,
     reads |-> { "base_lazy_tensor" },
     ret |-> [kind |-> "none", val |-> NoValue, flag |-> FALSE],
     base_requires_grad |-> val]

_get_indices(left_indices, right_indices) == Forward("_get_indices", << left_indices, right_indices >>)

_getitem(indices) == Forward("_getitem", indices)

_matmul(tensor) == Forward("_matmul", << tensor >>)

_quad_form_derivative(left_vecs, right_vecs) == Forward("_quad_form_derivative", << left_vecs, right_vecs >>)

_size == Forward("_size", << >>)

_t_matmul(tensor) == Forward("_t_matmul", << tensor >>)

_transpose_nonbatch == Forward("_transpose_nonbatch", << >>)

\* self.base_lazy_tensor.detach_(); return self
detach_ ==
    [calls |-> Forward("detach_", << >>).calls,
     reads |-> { "base_lazy_tensor" },
     ret |-> [kind |-> "self", val |-> NoValue, flag |-> FALSE]]

\* ----------------------------------------------------- state machine
VARIABLES
    pc,                  \* "new" before the constructor has run, then "ready"
    self,                \* the wrapper's fields
    ctor,                \* how the wrapper was constructed
    caller_eager_rhs,    \* the tensor object the caller passed as eager_rhs
    base_requires_grad,  \* base_lazy_tensor.requires_grad
    solve_calls,         \* solves made on the wrapped operator so far
    last,                \* the last operation on the wrapper and its outcome
    delegated,           \* the last passthrough operation: its arguments and what it did
    nLookups, nHit, nFallback, nBypass, nWarnings,
    nDebugFallback       \* lookups that failed the coverage check under settings.debug

vars == << pc, self, ctor, caller_eager_rhs, base_requires_grad, solve_calls, last, delegated, nLookups, nHit, nFallback, nBypass, nWarnings, nDebugFallback >>

counters == << nLookups, nHit, nFallback, nBypass, nWarnings, nDebugFallback >>

\* Tensors of lo..hi columns drawn from a set of columns.
Batches(cols, lo, hi) == UNION { [1..n -> cols] : n \in lo..hi }

\* The columns of eager_rhs: the zero vector, a vector c, a vector whose
\* cosine with c is 100/sqrt(10001) = 0.99995, and a vector orthogonal to c.
EagerCols == { Plain(<<0, 0>>), Plain(<<1, 0>>), Plain(<<100, 1>>), Plain(<<0, 1>>) }

\* The columns of a query: the zero vector, c, 2c, -c and the vector
\* orthogonal to c.
QueryCols == { Plain(<<0, 0>>), Plain(<<1, 0>>), Plain(<<2, 0>>), Plain(<<-1, 0>>), Plain(<<0, 1>>) }

EagerBatches == Batches(EagerCols, 0, MaxEager)

QueryBatches == Batches(QueryCols, 1, MaxQuery)

\* The eager_rhs of the construction specification.
CtorEagers == Batches({ Plain(<<0, 0>>), Plain(<<1, 0>>), Plain(<<100, 1>>) }, 0, MaxEager)

\* The Bernoulli draws for 0..MaxProbes trace samples.
BernDraws == Batches([1..MatrixDim -> {0, 1}], 0, MaxProbes)

\* One draw for each number of trace samples.
BernOnes == { [j \in 1..k |-> [i \in 1..MatrixDim |-> 1]] : k \in 0..MaxProbes }

\* A draw for one trace sample.
OneProbeDraw == { << [i \in 1..MatrixDim |-> 1] >> }

\* num_tridiag of a lookup: absent, 0 or 1.
TridiagOpts == { NoneInt, SomeInt(0), SomeInt(1) }

\* Which of normed_eager_rhs, probe_vectors, probe_vector_norms, solves,
\* probe_solves, probe_tmats the caller supplies.
AllGivens == [1..6 -> BOOLEAN]

NoGivens == { [i \in 1..6 |-> FALSE] }

\* The data of the lifecycle specification: any number of copies of one
\* cached column; the zero query, the cached one and one that is not cached.
LifeEagers == Batches({ Plain(<<1, 0>>) }, 0, MaxEager)

LifeQueries == { << Plain(t) >> : t \in { <<0, 0>>, <<1, 0>>, <<-1, 0>> } }

PassthroughOps == { "_matmul", "_t_matmul", "_get_indices", "_getitem", "_size", "_transpose_nonbatch", "_quad_form_derivative", "detach_", "requires_grad" }

\* The arguments of a passthrough operation: two distinct values, in
\* either order where the operation takes two.
PassthroughArgs(op) ==
    IF op \in { "_matmul", "_t_matmul" } THEN { << 1 >>, << 2 >> }
    ELSE IF op \in { "_get_indices", "_getitem", "_quad_form_derivative" } THEN { << 1, 2 >>, << 2, 1 >> }
    ELSE { << >> }

\* No passthrough operation made.
NoDelegation ==
    [args |-> << >>, calls |-> << >>, reads |-> {},
     ret |-> [kind |-> "none", val |-> NoValue, flag |-> FALSE]]

\* wrapper.op(*args), base_lazy_tensor.requires_grad being base_flag.
Call(op, args, base_flag) ==
    CASE op = "_get_indices" -> _get_indices(args[1], args[2])
      [] op = "_getitem" -> _getitem(args)
      [] op = "_matmul" -> _matmul(args[1])
      [] op = "_quad_form_derivative" -> _quad_form_derivative(args[1], args[2])
      [] op = "_size" -> _size
      [] op = "_t_matmul" -> _t_matmul(args[1])
      [] op = "_transpose_nonbatch" -> _transpose_nonbatch
      [] op = "detach_" -> detach_
      [] op = "requires_grad" -> requires_grad(base_flag)

NoFields ==
    [eager_rhs |-> EmptyTensor, normed_eager_rhs |-> EmptyTensor,
     probe_vectors |-> EmptyTensor, probe_vector_norms |-> EmptyTensor,
     solves |-> EmptyTensor, probe_solves |-> EmptyTensor,
     probe_tmats |-> EmptyTensor]

NoRet == [solves |-> EmptyTensor, tmats |-> EmptyTensor]

\* The exceptions the solve of the wrapped operator raises; "none": it
\* returns.
SolveErrors == { "none", "NotConverged" }

\* Mutant of Propagate: a solve that raises is caught and the lookup
\* returns nothing.
Propagate_Swallow(fields, r, error) ==
    IF error # "none" /\ r.calls # << >>
    THEN [solve_raised |-> error, raised |-> "none"] @@ [r EXCEPT !.ret = NoRet, !.self = fields]
    ELSE [solve_raised |-> "none", raised |-> "none"] @@ r

\* _solve when the solve it calls on the wrapped operator raises error:
\* the call is the operand of a return statement inside no try block, so
\* the exception leaves _solve as it is and nothing is returned.
\* solve_raised: what the solve called raised; raised: what the caller
\* of _solve sees raised.
Propagate(fields, r, error) ==
    IF error # "none" /\ r.calls # << >>
    THEN [solve_raised |-> error, raised |-> error] @@ [r EXCEPT !.ret = NoRet, !.self = fields]
    ELSE [solve_raised |-> "none", raised |-> "none"] @@ r

\* The record of an operation that is not a lookup.
OpRecord(op, calls) ==
    [op |-> op, rhs |-> EmptyTensor, rhs_after |-> EmptyTensor,
     num_tridiag |-> NoneInt, debug |-> FALSE, path |-> "none",
     ret |-> NoRet, weights |-> EmptyTensor, warnings |-> 0, calls |-> calls,
     solve_raised |-> "none", raised |-> "none"]

Init ==
    /\ pc = "new"
    /\ self = NoFields
    /\ ctor = [will_compute_logdet |-> FALSE, given |-> [i \in 1..6 |-> FALSE],
               num_trace_samples |-> 0, bern |-> << >>,
               supplied |-> [normed_eager_rhs |-> None, probe_vectors |-> None,
                             probe_vector_norms |-> None, solves |-> None,
                             probe_solves |-> None, probe_tmats |-> None],
               eager_rhs |-> [val |-> EmptyTensor, requires_grad |-> FALSE]]
    /\ caller_eager_rhs = [val |-> EmptyTensor, requires_grad |-> FALSE]
    /\ base_requires_grad = FALSE
    /\ solve_calls = 0
    /\ last = OpRecord("none", << >>)
    /\ delegated = NoDelegation
    /\ nLookups = 0 /\ nHit = 0 /\ nFallback = 0 /\ nBypass = 0 /\ nWarnings = 0
    /\ nDebugFallback = 0

\* The Bernoulli draw with every entry the other way.
Opposite(bern) == [j \in 1..Len(bern) |-> [i \in 1..MatrixDim |-> 1 - bern[j][i]]]

\* The optional arguments of the constructor: those fields of an earlier
\* wrapper that given marks, in the order normed_eager_rhs, probe_vectors,
\* probe_vector_norms, solves, probe_solves, probe_tmats.
Supplied(earlier, given) ==
    [normed_eager_rhs |-> IF given[1] THEN Some(earlier.normed_eager_rhs) ELSE None,
     probe_vectors |-> IF given[2] THEN Some(earlier.probe_vectors) ELSE None,
     probe_vector_norms |-> IF given[3] THEN Some(earlier.probe_vector_norms) ELSE None,
     solves |-> IF given[4] THEN Some(earlier.solves) ELSE None,
     probe_solves |-> IF given[5] THEN Some(earlier.probe_solves) ELSE None,
     probe_tmats |-> IF given[6] THEN Some(earlier.probe_tmats) ELSE None]

\* tensor.requires_grad_(flag): the flag of the tensor object is set in
\* place and the same object is returned.
requires_grad_(tensor, flag) == [tensor EXCEPT !.requires_grad = flag]

\* self.eager_rhs = eager_rhs.requires_grad_(False): the caller's tensor
\* object (a leaf tensor) after the constructor has stored it.
StoreEager(tensor) == requires_grad_(tensor, FALSE)

\* CachedCGLazyTensor(base_lazy_tensor, eager_rhs, ...), eager_rhs a leaf
\* tensor with one of the requires_grad flags grads.  The artifacts a
\* caller supplies are those of an earlier wrapper of the same operator
\* and eager_rhs (its representation), built on the opposite random
\* draw, each one present or not.
Construct(eagers, grads, logdets, draws, givens) ==
    /\ pc = "new"
    /\ \E eager_rhs \in eagers, eager_requires_grad \in grads, will_compute_logdet \in logdets, bern \in draws, given \in givens :
        \E supplied \in { Supplied(__init__(eager_rhs, None, None, None, None, None, None, will_compute_logdet, Opposite(bern)).self, given) } :
        \E r \in { __init__(eager_rhs, supplied.normed_eager_rhs,
                            supplied.probe_vectors, supplied.probe_vector_norms,
                            supplied.solves, supplied.probe_solves, supplied.probe_tmats,
                            will_compute_logdet, bern) } :
            /\ self' = r.self
            /\ ctor' = [will_compute_logdet |-> will_compute_logdet, given |-> given,
                        num_trace_samples |-> Len(bern), bern |-> bern,
                        supplied |-> supplied,
                        eager_rhs |-> [val |-> eager_rhs, requires_grad |-> eager_requires_grad]]
            /\ caller_eager_rhs' = StoreEager([val |-> eager_rhs, requires_grad |-> eager_requires_grad])
            /\ solve_calls' = solve_calls + Len(r.calls)
            /\ last' = OpRecord("__init__", r.calls)
            /\ delegated' = NoDelegation
    /\ pc' = "ready"
    /\ UNCHANGED << base_requires_grad, counters >>

\* wrapper._solve(rhs, preconditioner, num_tridiag), at most limit times,
\* the solve of the wrapped operator raising one of errors.
Lookup(queries, tridiags, debugs, errors, limit) ==
    /\ pc = "ready"
    /\ nLookups < limit
    /\ \E rhs \in queries, num_tridiag \in tridiags, debug \in debugs, error \in errors :
        \E r \in { Propagate(self, _solve(self, rhs, num_tridiag, debug), error) } :
            /\ self' = r.self
            /\ last' = [op |-> "_solve", rhs |-> rhs, rhs_after |-> r.rhs,
                        num_tridiag |-> num_tridiag, debug |-> debug,
                        path |-> r.path, ret |-> r.ret, weights |-> r.weights,
                        warnings |-> r.warnings, calls |-> r.calls,
                        solve_raised |-> r.solve_raised, raised |-> r.raised]
            /\ solve_calls' = solve_calls + Len(r.calls)
            /\ delegated' = NoDelegation
            /\ nLookups' = nLookups + 1
            /\ nHit' = nHit + (IF r.path = "hit" THEN 1 ELSE 0)
            /\ nFallback' = nFallback + (IF r.path = "fallback" THEN 1 ELSE 0)
            /\ nBypass' = nBypass + (IF r.path = "bypass" THEN 1 ELSE 0)
            /\ nWarnings' = nWarnings + r.warnings
            /\ nDebugFallback' = nDebugFallback + (IF r.path = "fallback" /\ debug THEN 1 ELSE 0)
    /\ UNCHANGED << pc, ctor, caller_eager_rhs, base_requires_grad >>

\* What a passthrough operation leaves in the wrapper's fields.
FieldsAfterPassthrough(fields, op) == fields

\* _matmul, _t_matmul, _get_indices, _getitem, _size,
\* _transpose_nonbatch, _quad_form_derivative, detach_ and reading
\* requires_grad: one call of the same operation on base_lazy_tensor.
Passthrough ==
    /\ pc = "ready"
    /\ \E op \in PassthroughOps :
        \E args \in PassthroughArgs(op) :
            LET r == Call(op, args, base_requires_grad)
            IN  /\ last' = OpRecord(op, << >>)
                /\ delegated' = [args |-> args, calls |-> r.calls, reads |-> r.reads, ret |-> r.ret]
                /\ self' = FieldsAfterPassthrough(self, op)
    /\ UNCHANGED << pc, ctor, caller_eager_rhs, base_requires_grad, solve_calls, counters >>

\* wrapper.requires_grad = val
SetRequiresGrad ==
    /\ pc = "ready"
    /\ \E val \in BOOLEAN :
        LET r == requires_grad_setter(val)
        IN  /\ base_requires_grad' = r.base_requires_grad
            /\ last' = OpRecord("requires_grad.setter", << >>)
            /\ delegated' = [args |-> << val >>, calls |-> r.calls, reads |-> r.reads, ret |-> r.ret]
            /\ self' = FieldsAfterPassthrough(self, "requires_grad.setter")
    /\ UNCHANGED << pc, ctor, caller_eager_rhs, solve_calls, counters >>

\* The life of one wrapper: construction, then lookups and passthrough
\* operations in any order, the solves of the wrapped operator raising or
\* returning.
Next ==
    \/ Construct(LifeEagers, {FALSE}, BOOLEAN, BernOnes, NoGivens)
    \/ Lookup(LifeQueries, TridiagOpts, BOOLEAN, SolveErrors, MaxLookups)
    \/ Passthrough
    \/ SetRequiresGrad

Spec == Init /\ [][Next]_vars

\* One lookup on a wrapper built from any eager_rhs, a tensor that tracks
\* gradients or does not, with settings.debug on and a solve that returns.
NextLookup ==
    \/ Construct(EagerBatches, BOOLEAN, BOOLEAN, OneProbeDraw, NoGivens)
    \/ Lookup(QueryBatches, TridiagOpts, {TRUE}, {"none"}, 1)

SpecLookup == Init /\ [][NextLookup]_vars

\* Construction alone, with every choice of arguments.
NextCtor == Construct(CtorEagers, {FALSE}, BOOLEAN, BernDraws, AllGivens)

SpecCtor == Init /\ [][NextCtor]_vars

\* ------------------------------------------------ vocabulary of the claims
IsZeroVec(c) == \A i \in 1..Len(c.num) : c.num[i] = 0

\* The cosine of the angle between two integer vectors of the plane exceeds
\* 0.9999: with d the dot product and x the cross product, the cosine is
\* d / sqrt(d*d + x*x).
CosineAboveThreshold(c, q) ==
    LET d == c.num[1] * q.num[1] + c.num[2] * q.num[2]
        x == c.num[1] * q.num[2] - c.num[2] * q.num[1]
    IN  /\ d > 0
        /\ \/ x = 0
           \/ FracGT(d * d, x * x, ThresholdNum * ThresholdNum, ThresholdDen * ThresholdDen - ThresholdNum * ThresholdNum)

\* q = alpha * c for some alpha > 0, respectively alpha < 0.
PositiveMultiple(q, c) ==
    IF IsZeroVec(c) THEN IsZeroVec(q)
    ELSE /\ c.num[1] * q.num[2] = c.num[2] * q.num[1]
         /\ Dot(c.num, q.num) > 0

NegativeMultiple(q, c) ==
    IF IsZeroVec(c) THEN IsZeroVec(q)
    ELSE /\ c.num[1] * q.num[2] = c.num[2] * q.num[1]
         /\ Dot(c.num, q.num) < 0

\* The last operation was a lookup without a tridiagonalization request.
CacheLookup == last.op = "_solve" /\ ~last.num_tridiag.given

\* The cached columns that match a column q.
MatchesOf(q) == { i \in 1..Len(self.eager_rhs) : CosineAboveThreshold(self.eager_rhs[i], q) }

Covered(q) == MatchesOf(q) # {} \/ IsZeroVec(q)

AnsweredFromCache == last.path = "hit" /\ last.calls = << >>

TookFallback ==
    /\ last.path = "fallback"
    /\ last.calls = << [rhs |-> last.rhs, num_tridiag |-> NoneInt] >>

RECURSIVE SumSolves(_)
\* The sum of the cached solves with indices in S.
SumSolves(S) ==
    IF S = {} THEN ZeroCol
    ELSE LET i == CHOOSE k \in S : TRUE
         IN  AddCol(self.solves[i], SumSolves(S \ {i}))

\* col is the arithmetic mean of the cached solves with indices in S.
IsMeanOf(col, S) == ScaleCol(col, Cardinality(S), 1) = SumSolves(S)

\* ------------------------------------------------------------- claims

\* C1: a lookup without a tridiagonalization request answers from the
\* cache exactly when every column of the query batch matches a cached
\* column (cosine above 0.9999) or is the zero vector, and takes the
\* fallback path in every other case.
C1_CoverageDecidesPath ==
    CacheLookup =>
        IF \A j \in 1..Len(last.rhs) : Covered(last.rhs[j])
        THEN AnsweredFromCache
        ELSE TookFallback

\* A batch of a matched column and a zero column was answered from the cache.
C1_Witness ==
    /\ CacheLookup
    /\ AnsweredFromCache
    /\ \E j, k \in 1..Len(last.rhs) :
        /\ IsZeroVec(last.rhs[j])
        /\ ~IsZeroVec(last.rhs[k])
        /\ MatchesOf(last.rhs[k]) # {}

\* C2 as stated: a lookup whose batch is exactly a cached column c returns
\* the stored solve of c and makes no fresh solve.
C2_Original ==
    (CacheLookup /\ Len(last.rhs) = 1) =>
        \A i \in 1..Len(self.eager_rhs) :
            last.rhs[1] = self.eager_rhs[i] =>
                /\ AnsweredFromCache
                /\ last.ret.solves = << self.solves[i] >>

\* C2, amended: a lookup whose batch is exactly a cached column c makes no
\* fresh solve and returns the mean of the stored solves of the cached
\* columns that match c (the zero column when c is zero); that is the
\* stored solve of c when c is the only cached column matching it.
C2_ExactReuse ==
    (CacheLookup /\ Len(last.rhs) = 1) =>
        \A i \in 1..Len(self.eager_rhs) :
            last.rhs[1] = self.eager_rhs[i] =>
                /\ AnsweredFromCache
                /\ Len(last.ret.solves) = 1
                /\ IsMeanOf(last.ret.solves[1], MatchesOf(last.rhs[1]))
                /\ ~IsZeroVec(last.rhs[1]) => i \in MatchesOf(last.rhs[1])
                /\ MatchesOf(last.rhs[1]) = {i} => last.ret.solves[1] = self.solves[i]
                /\ IsZeroVec(last.rhs[1]) => last.ret.solves[1] = ZeroCol

\* A cached non-zero column, the only one in its direction, was queried
\* among other cached columns.
C2_Witness ==
    /\ CacheLookup
    /\ Len(last.rhs) = 1
    /\ Len(self.eager_rhs) >= 2
    /\ \E i \in 1..Len(self.eager_rhs) :
        /\ last.rhs[1] = self.eager_rhs[i]
        /\ MatchesOf(last.rhs[1]) = {i}
        /\ last.ret.solves = << self.solves[i] >>
        /\ self.solves[i] # ZeroCol

\* C3 as stated: for a cached column c and any alpha # 0, of either sign,
\* the lookup of alpha * c is answered from the cache and returns the
\* stored solve of c, not rescaled.
C3_Original ==
    (CacheLookup /\ Len(last.rhs) = 1) =>
        \A i \in 1..Len(self.eager_rhs) :
            (PositiveMultiple(last.rhs[1], self.eager_rhs[i]) \/ NegativeMultiple(last.rhs[1], self.eager_rhs[i])) =>
                /\ AnsweredFromCache
                /\ last.ret.solves = << self.solves[i] >>

\* C3, amended: for a cached column c and alpha > 0, the lookup of
\* alpha * c is answered from the cache and returns what the lookup of c
\* itself returns, not rescaled by alpha: the mean of the stored solves of
\* the cached columns matching c, which is the stored solve of c when c is
\* the only one.  For alpha < 0 the query does not match c, and it is
\* answered from the cache only when another cached column matches it.
C3_ScalarMultipleReuse ==
    (CacheLookup /\ Len(last.rhs) = 1) =>
        \A i \in 1..Len(self.eager_rhs) :
            LET c == self.eager_rhs[i]
                q == last.rhs[1]
            IN  /\ PositiveMultiple(q, c) =>
                    /\ AnsweredFromCache
                    /\ Len(last.ret.solves) = 1
                    /\ IsMeanOf(last.ret.solves[1], MatchesOf(c))
                    /\ MatchesOf(c) = {i} => last.ret.solves[1] = self.solves[i]
                /\ (NegativeMultiple(q, c) /\ ~IsZeroVec(c)) =>
                    /\ i \notin MatchesOf(q)
                    /\ AnsweredFromCache <=> MatchesOf(q) # {}
                    /\ ~AnsweredFromCache => TookFallback

\* The query 2 * c or c / 2 of a cached column c, the only one in its
\* direction, returned the stored solve of c.
C3_Witness ==
    /\ CacheLookup
    /\ Len(last.rhs) = 1
    /\ \E i \in 1..Len(self.eager_rhs) :
        /\ PositiveMultiple(last.rhs[1], self.eager_rhs[i])
        /\ last.rhs[1] # self.eager_rhs[i]
        /\ ~IsZeroVec(last.rhs[1])
        /\ MatchesOf(self.eager_rhs[i]) = {i}
        /\ last.ret.solves = << self.solves[i] >>
        /\ last.ret.solves # << SolveCol(last.rhs[1]) >>

\* C4: when a non-zero query column matches no cached column, the lookup
\* returns one fresh solve of the whole batch: every column of the result,
\* those of matched columns too, is the direct solve of the query column.
C4_FallbackSolvesWholeBatch ==
    (CacheLookup /\ \E j \in 1..Len(last.rhs) : ~Covered(last.rhs[j])) =>
        /\ TookFallback
        /\ Len(last.ret.solves) = Len(last.rhs)
        /\ \A j \in 1..Len(last.rhs) : last.ret.solves[j] = SolveCol(last.rhs[j])

\* A fallback whose batch holds a column that matches a cached column
\* with a different stored solve.
C4_Witness ==
    /\ CacheLookup
    /\ last.path = "fallback"
    /\ \E j \in 1..Len(last.rhs) :
        /\ MatchesOf(last.rhs[j]) # {}
        /\ ~IsMeanOf(last.ret.solves[j], MatchesOf(last.rhs[j]))
        /\ last.ret.solves[j] = SolveCol(last.rhs[j])

\* C5: a zero column of the query gets the zero solve; when the other
\* columns are covered the lookup takes the cached path, with no fresh
\* solve and no warning, whatever the cache holds.
C5_ZeroVectorSolve ==
    CacheLookup =>
        \A j \in 1..Len(last.rhs) :
            IsZeroVec(last.rhs[j]) =>
                /\ last.ret.solves[j] = ZeroCol
                /\ (\A k \in 1..Len(last.rhs) : Covered(last.rhs[k])) =>
                    /\ AnsweredFromCache
                    /\ last.warnings = 0

\* The zero vector alone was looked up, with settings.debug on, in a cache
\* that holds non-zero solves and no zero column.
C5_Witness ==
    /\ CacheLookup
    /\ last.debug
    /\ Len(last.rhs) = 1
    /\ IsZeroVec(last.rhs[1])
    /\ Len(self.solves) >= 1
    /\ \A i \in 1..Len(self.solves) : self.solves[i] # ZeroCol
    /\ last.ret.solves = << ZeroCol >>
    /\ last.path = "hit"

\* The weight 1/m as a fraction, and 0.
WeightIs(w, p, q) == w.num * q = p * w.den /\ w.den > 0

\* Column j of the weight matrix has 1/m on the rows of the m matching
\* cached columns and 0 elsewhere.
AveragingWeights(j) ==
    LET M == MatchesOf(last.rhs[j])
    IN  /\ Len(last.weights) = Len(self.eager_rhs)
        /\ \A i \in 1..Len(self.eager_rhs) :
            IF i \in M THEN WeightIs(last.weights[i][j], 1, Cardinality(M))
            ELSE WeightIs(last.weights[i][j], 0, 1)

\* C6 as stated: the returned solve of a query column that matches
\* m >= 1 cached columns is the mean of those m cached solves.
C6_Original ==
    CacheLookup =>
        \A j \in 1..Len(last.rhs) :
            MatchesOf(last.rhs[j]) # {} =>
                IsMeanOf(last.ret.solves[j], MatchesOf(last.rhs[j]))

\* C6, amended: every column of the weight matrix has 1/m on the rows of
\* its m matching cached columns and 0 elsewhere; and when the lookup is
\* answered from the cache, the returned solve of a query column that
\* matches m >= 1 cached columns is the mean of those m cached solves.
C6_DuplicateAveraging ==
    CacheLookup =>
        \A j \in 1..Len(last.rhs) :
            /\ AveragingWeights(j)
            /\ (AnsweredFromCache /\ MatchesOf(last.rhs[j]) # {}) =>
                IsMeanOf(last.ret.solves[j], MatchesOf(last.rhs[j]))

\* A query column matched two cached columns with different stored solves
\* and got their mean.
C6_Witness ==
    /\ CacheLookup
    /\ AnsweredFromCache
    /\ \E j \in 1..Len(last.rhs) :
        /\ Cardinality(MatchesOf(last.rhs[j])) = 2
        /\ \A i \in MatchesOf(last.rhs[j]) : last.ret.solves[j] # self.solves[i]
        /\ IsMeanOf(last.ret.solves[j], MatchesOf(last.rhs[j]))

\* C7: a lookup that carries num_tridiag, the value 0 included, does not
\* consult the cache: it returns one fresh solve of the batch with
\* num_tridiag passed through, and emits no warning.
C7_TridiagBypass ==
    (last.op = "_solve" /\ last.num_tridiag.given) =>
        /\ last.path = "bypass"
        /\ last.calls = << [rhs |-> last.rhs, num_tridiag |-> last.num_tridiag] >>
        /\ last.ret.solves = [j \in 1..Len(last.rhs) |-> SolveCol(last.rhs[j])]
        /\ Len(last.ret.tmats) = last.num_tridiag.val
        /\ last.warnings = 0

\* num_tridiag = 0 was passed with a batch whose every column is cached,
\* and whose cached answer differs from the fresh solve.
C7_Witness ==
    /\ last.op = "_solve"
    /\ last.num_tridiag = SomeInt(0)
    /\ last.path = "bypass"
    /\ \A j \in 1..Len(last.rhs) : \E i \in 1..Len(self.eager_rhs) : last.rhs[j] = self.eager_rhs[i]
    /\ \E j \in 1..Len(last.rhs) : ~IsMeanOf(last.ret.solves[j], MatchesOf(last.rhs[j]))

\* The constructor was given solves, probe_solves and probe_tmats.
Precomputed == ctor.given[4] /\ ctor.given[5] /\ ctor.given[6]

\* C8: after construction, with any number of probe vectors and with
\* log-determinant estimation on or off, solves has as many columns as
\* eager_rhs, and column i of solves is the solve of column i of
\* eager_rhs, the one a solve of that column alone gives.
C8_CacheAlignment ==
    pc = "ready" =>
        /\ Len(self.solves) = Len(self.eager_rhs)
        /\ \A i \in 1..Len(self.eager_rhs) :
            self.solves[i] = base_solve(<< self.eager_rhs[i] >>, 0).solves[1]

\* The constructor solved a batch of probe vectors followed by two
\* eager_rhs columns with different solves.
C8_Witness ==
    /\ pc = "ready"
    /\ ~Precomputed
    /\ ctor.will_compute_logdet
    /\ Len(self.probe_vectors) >= 1
    /\ last.calls = << [rhs |-> self.probe_vectors \o self.eager_rhs, num_tridiag |-> SomeInt(Len(self.probe_vectors))] >>
    /\ Len(self.solves) = 2
    /\ self.solves[1] # self.solves[2]

\* C9: once the wrapper is constructed, no lookup (hit, fallback or
\* bypass) and no passthrough operation changes any of its fields, and a
\* lookup leaves the caller's query batch as it was.
C9_WriteOnce ==
    [][ /\ pc = "ready" => self' = self
        /\ last'.op = "_solve" => last'.rhs_after = last'.rhs ]_vars

\* A passthrough operation after a fallback lookup, the cache still
\* holding one solve per eager_rhs column.
C9_Witness ==
    /\ pc = "ready"
    /\ nFallback >= 1
    /\ last.op \in PassthroughOps
    /\ Len(self.eager_rhs) >= 1
    /\ Len(self.solves) = Len(self.eager_rhs)

\* C10: a constructor given no precomputed solves calls the wrapped
\* operator's solve once, whatever the numbers of probe and eager_rhs
\* columns; a lookup answered from the cache calls it not at all, a
\* fallback or bypass lookup once; so the calls made number 1 plus the
\* fallback and bypass lookups.
C10_SolveAccounting ==
    /\ (last.op = "__init__" /\ ~Precomputed) => (Len(last.calls) = 1 /\ solve_calls = 1)
    /\ last.op = "_solve" => Len(last.calls) = (IF last.path = "hit" THEN 0 ELSE 1)
    /\ (pc = "ready" /\ ~Precomputed) =>
        /\ nLookups = nHit + nFallback + nBypass
        /\ solve_calls = 1 + nFallback + nBypass

\* A hit and a fallback on a wrapper built with a probe vector and two
\* eager_rhs columns: two solve calls in all.
C10_Witness ==
    /\ pc = "ready"
    /\ Len(self.probe_vectors) >= 1
    /\ Len(self.eager_rhs) >= 2
    /\ nHit = 1
    /\ nFallback = 1
    /\ solve_calls = 2

\* C11: a lookup gives exactly one warning when it fails the coverage
\* check with settings.debug on, and none otherwise: none when answered
\* from the cache, none for a zero query, none when num_tridiag is given,
\* none on a fallback with settings.debug off; so the warnings given over
\* the lookups made number the fallback lookups made with debug on.
C11_WarningEmission ==
    /\ last.op = "_solve" =>
        /\ last.warnings = (IF last.path = "fallback" /\ last.debug THEN 1 ELSE 0)
        /\ (\A j \in 1..Len(last.rhs) : IsZeroVec(last.rhs[j])) => last.warnings = 0
        /\ last.num_tridiag.given => last.warnings = 0
    /\ nWarnings = nDebugFallback
    /\ nWarnings <= nFallback

\* Two fallback lookups, the first with settings.debug off and the second
\* with it on: one warning in all.
C11_Witness ==
    /\ last.op = "_solve"
    /\ last.path = "fallback"
    /\ last.debug
    /\ nFallback = 2
    /\ nWarnings = 1

\* The attributes of the wrapper that make up its cache.
CacheFields == { "eager_rhs", "normed_eager_rhs", "probe_vectors", "probe_vector_norms", "solves", "probe_solves", "probe_tmats" }

\* C12: each passthrough operation (_matmul, _t_matmul, _get_indices,
\* _getitem, _size, _transpose_nonbatch, _quad_form_derivative, detach_,
\* reading and setting requires_grad) makes exactly one call, of the same
\* operation with the same arguments, on base_lazy_tensor and returns
\* what that call returns, detach_ returning the wrapper; it reads and
\* changes no cache field and makes no solve; requires_grad is the wrapped
\* operator's flag and no attribute of the wrapper.
C12_PassthroughDelegation ==
    [][ (last'.op \in PassthroughOps \cup { "requires_grad.setter" }) =>
            /\ delegated'.calls = << [op |-> last'.op, args |-> delegated'.args] >>
            /\ delegated'.ret =
                 (CASE last'.op = "detach_" -> [kind |-> "self", val |-> NoValue, flag |-> FALSE]
                    [] last'.op = "requires_grad" -> [kind |-> "flag", val |-> NoValue, flag |-> base_requires_grad]
                    [] last'.op = "requires_grad.setter" -> [kind |-> "none", val |-> NoValue, flag |-> FALSE]
                    [] OTHER -> [kind |-> "base", val |-> base_call(last'.op, delegated'.args), flag |-> FALSE])
            /\ base_requires_grad' =
                 (IF last'.op = "requires_grad.setter" THEN delegated'.args[1] ELSE base_requires_grad)
            /\ delegated'.reads \cap CacheFields = {}
            /\ self' = self
            /\ DOMAIN self' = CacheFields
            /\ solve_calls' = solve_calls
            /\ last'.calls = << >> ]_vars

\* _quad_form_derivative(2, 1) on a wrapper holding a cached solve, the
\* wrapped operator's requires_grad having been set through the wrapper.
C12_Witness ==
    /\ last.op = "_quad_form_derivative"
    /\ delegated.args = << 2, 1 >>
    /\ delegated.ret.val = base_call("_quad_form_derivative", << 2, 1 >>)
    /\ base_requires_grad
    /\ Len(self.solves) >= 1

\* C13: a lookup raises only what the solve it calls on the wrapped
\* operator raises: a lookup answered from the cache raises nothing; a
\* fallback or bypass lookup raises exactly when that solve raises, and
\* then the caller sees the same exception and the wrapper's fields are
\* as before; a query without a match raises nothing by itself.
C13_ErrorPolicy ==
    [][ last'.op = "_solve" =>
            /\ last'.path = "hit" => last'.raised = "none"
            /\ last'.raised = last'.solve_raised
            /\ last'.raised # "none" =>
                /\ last'.path \in { "fallback", "bypass" }
                /\ Len(last'.calls) = 1
                /\ self' = self
            /\ (last'.path = "fallback" /\ last'.solve_raised = "none") =>
                /\ last'.raised = "none"
                /\ Len(last'.ret.solves) = Len(last'.rhs) ]_vars

\* A fallback lookup whose solve raises, after a lookup answered from the
\* cache: the cache still holds its solve.
C13_Witness ==
    /\ last.op = "_solve"
    /\ last.path = "fallback"
    /\ last.raised = "NotConverged"
    /\ nHit = 1
    /\ Len(self.solves) >= 1

\* The query batch of the last lookup, normalized as _solve normalizes it.
NormedQuery == [j \in 1..Len(last.rhs) |-> DivNorm(last.rhs[j], Norm2(last.rhs[j]))]

\* The all-zero column, as a tensor value.
IsZeroValue(c) == ~IsNaN(c) /\ IsZeroVec(c)

\* C14: normalization divides no column by a zero norm: the normalized
\* form of a zero column of eager_rhs, or of the query batch, is the zero
\* column, so normed_eager_rhs holds no NaN and no entry of
\* normed_eager_rhs.t() @ normed_rhs is NaN.
C14_NoDivisionByZero ==
    /\ ctor.given[1] = FALSE =>
        \A i \in 1..Len(self.normed_eager_rhs) :
            /\ ~IsNaN(self.normed_eager_rhs[i])
            /\ IsZeroVec(self.eager_rhs[i]) => IsZeroValue(self.normed_eager_rhs[i])
    /\ CacheLookup =>
        /\ \A j \in 1..Len(last.rhs) :
            IsZeroVec(last.rhs[j]) => IsZeroValue(NormedQuery[j])
        /\ \A i \in 1..Len(self.normed_eager_rhs), j \in 1..Len(last.rhs) :
            SimEntry(self.normed_eager_rhs[i], NormedQuery[j]).d2 # 0

\* The constructor was given eager_rhs and will_compute_logdet only.
NothingSupplied == \A i \in 1..6 : ~ctor.given[i]

\* C15: a wrapper constructed with will_compute_logdet off and no
\* artifacts has empty probe_vectors, probe_vector_norms, probe_solves and
\* probe_tmats; its constructor makes one solve, of eager_rhs alone with
\* num_tridiag = 0 (no tridiagonal matrices), and solves is all that this
\* solve returns.
C15_LogdetDisabled ==
    (pc = "ready" /\ ~ctor.will_compute_logdet /\ NothingSupplied) =>
        /\ self.probe_vectors = EmptyTensor
        /\ self.probe_vector_norms = EmptyTensor
        /\ self.probe_solves = EmptyTensor
        /\ self.probe_tmats = EmptyTensor
        /\ last.calls = << [rhs |-> self.eager_rhs, num_tridiag |-> SomeInt(0)] >>
        /\ base_solve(self.eager_rhs, 0).tmats = EmptyTensor
        /\ self.solves = base_solve(self.eager_rhs, 0).solves

\* Built with will_compute_logdet off from two eager_rhs columns with
\* different solves.
C15_Witness ==
    /\ pc = "ready"
    /\ ~ctor.will_compute_logdet
    /\ NothingSupplied
    /\ Len(self.eager_rhs) = 2
    /\ self.solves[1] # self.solves[2]
    /\ self.probe_tmats = EmptyTensor

\* The constructor generated its probe vectors.
ProbesGenerated == ~ctor.given[2] \/ ~ctor.given[3]

\* C16: a constructor with will_compute_logdet on that computes its
\* solves makes one solve of the batch of the probe vectors followed by
\* the eager_rhs columns, with num_tridiag the number of probe vectors;
\* the probe vectors it generates are settings.num_trace_samples columns
\* of entries +1 and -1 divided by their norm, each recorded norm having
\* square MatrixDim and each stored column unit norm.
C16_LogdetEnabled ==
    (pc = "ready" /\ ctor.will_compute_logdet) =>
        /\ ~Precomputed =>
            /\ last.calls = << [rhs |-> self.probe_vectors \o self.eager_rhs,
                                num_tridiag |-> SomeInt(Len(self.probe_vectors))] >>
            /\ Len(self.probe_tmats) = Len(self.probe_vectors)
            /\ Len(self.probe_solves) = Len(self.probe_vectors)
        /\ ProbesGenerated =>
            /\ Len(self.probe_vectors) = ctor.num_trace_samples
            /\ Len(self.probe_vector_norms) = ctor.num_trace_samples
            /\ \A j \in 1..Len(self.probe_vectors) :
                /\ \A i \in 1..MatrixDim : self.probe_vectors[j].num[i] \in { 1, -1 }
                /\ self.probe_vector_norms[j] = MatrixDim
                /\ self.probe_vectors[j].den = 1
                /\ self.probe_vectors[j].n2 = self.probe_vector_norms[j]
                /\ Norm2(self.probe_vectors[j]) = self.probe_vectors[j].n2

\* One generated probe vector of mixed signs, solved in one batch ahead of
\* two eager_rhs columns.
C16_Witness ==
    /\ pc = "ready"
    /\ ctor.will_compute_logdet
    /\ NothingSupplied
    /\ ctor.num_trace_samples = 1
    /\ self.probe_vectors[1].num = << 1, -1 >>
    /\ Len(self.eager_rhs) = 2
    /\ Len(last.calls[1].rhs) = 3
    /\ last.calls[1].rhs[1] = self.probe_vectors[1]

\* C17: the tensor object the caller passed as eager_rhs is, after
\* construction and after every lookup and passthrough operation, as the
\* caller passed it: the same values and the same requires_grad flag.
C17_EagerReadOnly ==
    pc = "ready" => caller_eager_rhs = ctor.eager_rhs

\* What the one solve of a constructor that computes its solves returns.
CtorSolve == base_solve(last.calls[1].rhs, last.calls[1].num_tridiag.val)

\* C18: a constructor given solves, probe_solves and probe_tmats makes no
\* solve and stores the three as given; with any of them missing it makes
\* one solve and stores what comes of that solve in all three, whatever
\* was given.  It stores probe_vectors and probe_vector_norms as given
\* when both are given and otherwise what it generates, and stores
\* normed_eager_rhs as given when given and otherwise the normalized
\* eager_rhs.
C18_Reconstruction ==
    pc = "ready" =>
        /\ Precomputed =>
            /\ last.calls = << >>
            /\ self.solves = ctor.supplied.solves.val
            /\ self.probe_solves = ctor.supplied.probe_solves.val
            /\ self.probe_tmats = ctor.supplied.probe_tmats.val
        /\ ~Precomputed =>
            /\ Len(last.calls) = 1
            /\ LET k == IF ctor.will_compute_logdet THEN Len(self.probe_vectors) ELSE 0
               IN  /\ last.calls[1].rhs = SubSeq(self.probe_vectors, 1, k) \o self.eager_rhs
                   /\ self.solves = SubSeq(CtorSolve.solves, k + 1, Len(CtorSolve.solves))
                   /\ self.probe_tmats = CtorSolve.tmats
                   /\ Len(self.probe_solves) = k
                   /\ \A j \in 1..k : self.probe_solves[j] = MulZeroAddOne(CtorSolve.solves[j])
        /\ ~ProbesGenerated =>
            /\ self.probe_vectors = ctor.supplied.probe_vectors.val
            /\ self.probe_vector_norms = ctor.supplied.probe_vector_norms.val
        /\ ProbesGenerated =>
            LET pv == GenerateProbes(None, None, ctor.will_compute_logdet, ctor.bern)
            IN  /\ self.probe_vectors = pv.probe_vectors
                /\ self.probe_vector_norms = pv.probe_vector_norms
        /\ ctor.given[1] => self.normed_eager_rhs = ctor.supplied.normed_eager_rhs.val
        /\ ~ctor.given[1] =>
            /\ Len(self.normed_eager_rhs) = Len(self.eager_rhs)
            /\ \A j \in 1..Len(self.eager_rhs) :
                self.normed_eager_rhs[j] = DivNorm(self.eager_rhs[j], Norm2(self.eager_rhs[j]))

\* Built with probe_tmats and probe_vector_norms given and the rest
\* missing: the probe vectors are generated and solved, and the
\* tridiagonal matrices stored are those of that solve, not those given.
C18_Witness ==
    /\ pc = "ready"
    /\ ctor.will_compute_logdet
    /\ ctor.given = << FALSE, FALSE, TRUE, FALSE, FALSE, TRUE >>
    /\ Len(self.probe_vectors) = 1
    /\ Len(self.eager_rhs) >= 1
    /\ Len(last.calls) = 1
    /\ self.probe_tmats # ctor.supplied.probe_tmats.val

====
